---- MODULE Spec2Model ----
(***************************************************************************)
(* csv2struct: per-cell classification (FieldKind::parse), the per-column  *)
(* accumulator (Index::add), the column resolution (Index::to_struct_defs) *)
(* and the scan loop of main.                                              *)
(*                                                                         *)
(* A text (Rust String / &str) is a sequence of one-character strings.     *)
(***************************************************************************)
EXTENDS Integers, Sequences, FiniteSets, TLC

\* ------------------------------------------------------------------ bounds

\* most data rows the reader yields in one run
MaxRows == 2
\* longest text enumerated over Alphabet for the classifier
MaxLen == 3

\* ------------------------------------------------------------- characters

I32_MAX == 2147483647
I32_MIN == (-2147483647) - 1

DigitChars == {"0", "1", "2", "3", "4", "5", "6", "7", "8", "9"}

DigitVal(c) ==
    CASE c = "0" -> 0 [] c = "1" -> 1 [] c = "2" -> 2 [] c = "3" -> 3
      [] c = "4" -> 4 [] c = "5" -> 5 [] c = "6" -> 6 [] c = "7" -> 7
      [] c = "8" -> 8 [] c = "9" -> 9

LowerLetters ==
    << "a", "b", "c", "d", "e", "f", "g", "h", "i", "j", "k", "l", "m",
       "n", "o", "p", "q", "r", "s", "t", "u", "v", "w", "x", "y", "z" >>

UpperLetters ==
    << "A", "B", "C", "D", "E", "F", "G", "H", "I", "J", "K", "L", "M",
       "N", "O", "P", "Q", "R", "S", "T", "U", "V", "W", "X", "Y", "Z" >>

Range(s) == { s[i] : i \in 1..Len(s) }

is_lowercase(c) == c \in Range(LowerLetters)

is_uppercase(c) == c \in Range(UpperLetters)

is_numeric(c) == c \in DigitChars

is_alphanumeric(c) == is_lowercase(c) \/ is_uppercase(c) \/ is_numeric(c)

LetterIndex(letters, c) == CHOOSE i \in 1..Len(letters) : letters[i] = c

to_ascii_lowercase(c) ==
    IF is_uppercase(c) THEN LowerLetters[LetterIndex(UpperLetters, c)] ELSE c

to_ascii_uppercase(c) ==
    IF is_lowercase(c) THEN UpperLetters[LetterIndex(LowerLetters, c)] ELSE c

to_lowercase(s) == [i \in 1..Len(s) |-> to_ascii_lowercase(s[i])]

AllDigits(s) == \A i \in 1..Len(s) : is_numeric(s[i])

\* ------------------------------------------------------- str::parse::<i32>

\* the checked accumulation of core::num's from_str_radix: Some(value), or
\* None once a step leaves the i32 range
RECURSIVE checked_digits(_, _, _)
checked_digits(ds, acc, negative) ==
    IF ds = << >> THEN [some |-> TRUE, val |-> acc]
    ELSE LET d == DigitVal(Head(ds)) IN
         IF negative
         THEN IF acc >= (I32_MIN + d + 9) \div 10
              THEN checked_digits(Tail(ds), acc * 10 - d, negative)
              ELSE [some |-> FALSE, val |-> 0]
         ELSE IF acc <= (I32_MAX - d) \div 10
              THEN checked_digits(Tail(ds), acc * 10 + d, negative)
              ELSE [some |-> FALSE, val |-> 0]

\* f.parse::<i32>().is_ok(): an optional sign, one or more ASCII digits, in range
parse_i32(f) ==
    LET signed == f # << >> /\ f[1] \in {"+", "-"}
        negative == f # << >> /\ f[1] = "-"
        ds == IF signed THEN Tail(f) ELSE f
    IN  /\ ds # << >>
        /\ AllDigits(ds)
        /\ checked_digits(ds, 0, negative).some

\* ------------------------------------------------------- str::parse::<f32>

\* Exp ::= 'e' Sign? Digit+   (on the lowercased text)
IsExp(s) ==
    /\ s # << >>
    /\ s[1] = "e"
    /\ LET r == Tail(s)
           ds == IF r # << >> /\ r[1] \in {"+", "-"} THEN Tail(r) ELSE r
       IN  ds # << >> /\ AllDigits(ds)

\* Digit+ | Digit+ '.' Digit* | Digit* '.' Digit+
IsMantissa(m) ==
    \E d \in 0..Len(m) :
        LET ip == SubSeq(m, 1, d)
            rest == SubSeq(m, d + 1, Len(m))
        IN  /\ AllDigits(ip)
            /\ \/ rest = << >> /\ ip # << >>
               \/ /\ rest # << >>
                  /\ rest[1] = "."
                  /\ AllDigits(Tail(rest))
                  /\ Len(ip) + Len(Tail(rest)) > 0

\* Number ::= mantissa Exp?
IsNumber(s) ==
    \E k \in 0..Len(s) :
        /\ IsMantissa(SubSeq(s, 1, k))
        /\ \/ k = Len(s)
           \/ IsExp(SubSeq(s, k + 1, Len(s)))

SpecialFloats ==
    { << "i", "n", "f" >>,
      << "i", "n", "f", "i", "n", "i", "t", "y" >>,
      << "n", "a", "n" >> }

\* f.parse::<f32>().is_ok(): Sign? ('inf' | 'infinity' | 'nan' | Number),
\* case-insensitively; an out-of-range magnitude rounds to infinity or zero
\* and is still Ok
parse_f32(f) ==
    LET l == to_lowercase(f)
        body == IF l # << >> /\ l[1] \in {"+", "-"} THEN Tail(l) ELSE l
    IN  body \in SpecialFloats \/ IsNumber(body)

\* -------------------------------------------------------------- FieldKind

Integer == [tag |-> "Integer"]
Real == [tag |-> "Real"]
Empty == [tag |-> "Empty"]
Factor(s) == [tag |-> "Factor", s |-> s]

\* the same rules with the float parser tried before the integer parser
parse_float_first(f) ==
    IF f = << >> THEN Empty
    ELSE IF parse_f32(f) THEN Real
    ELSE IF parse_i32(f) THEN Integer
    ELSE Factor(f)

\* FieldKind::parse: Ok(Integer).or(Ok(Real)).unwrap_or(Factor(f))
parse(f) ==
    IF f = << >> THEN Empty
    ELSE IF parse_i32(f) THEN Integer
    ELSE IF parse_f32(f) THEN Real
    ELSE Factor(f)

\* ------------------------------------------------ Inflector::to_pascal_case

trim_right(s) ==
    LET keep == { i \in 1..Len(s) : is_alphanumeric(s[i]) }
    IN  IF keep = {} THEN << >>
        ELSE SubSeq(s, 1, CHOOSE i \in keep : \A j \in keep : j <= i)

\* one iteration of to_case_camel_like under the options of to_pascal_case
camel_step(st, c) ==
    IF ~is_alphanumeric(c) /\ st.found_real_char
    THEN [st EXCEPT !.new_word = TRUE]
    ELSE IF ~st.found_real_char /\ ~is_alphanumeric(c)
    THEN st
    ELSE IF is_numeric(c)
    THEN [st EXCEPT !.found_real_char = TRUE, !.new_word = TRUE,
                    !.result = Append(@, c)]
    ELSE IF \/ st.new_word
            \/ /\ is_lowercase(st.last_char)
               /\ is_uppercase(c)
               /\ st.last_char # " "
    THEN [st EXCEPT !.found_real_char = TRUE, !.new_word = FALSE,
                    !.result = Append(@, to_ascii_uppercase(c))]
    ELSE [st EXCEPT !.found_real_char = TRUE, !.last_char = c,
                    !.result = Append(@, to_ascii_lowercase(c))]

RECURSIVE camel_loop(_, _)
camel_loop(st, s) ==
    IF s = << >> THEN st ELSE camel_loop(camel_step(st, Head(s)), Tail(s))

to_pascal_case(s) ==
    camel_loop([new_word |-> TRUE, last_char |-> " ",
                found_real_char |-> FALSE, result |-> << >>],
               trim_right(s)).result

\* ------------------------------------------------------------------ Index

Field(name, kind) == [name |-> name, kind |-> kind]

IndexOfName(inner, name) ==
    { i \in 1..Len(inner) : inner[i].name = name }

\* the same match with the new kind put in front of the column's kinds
add_field_front(inner, field) ==
    LET found == IndexOfName(inner, field.name) IN
    IF found # {}
    THEN LET i == CHOOSE i \in found : \A j \in found : i <= j
         IN  [inner EXCEPT ![i].kinds = << field.kind >> \o @]
    ELSE Append(inner, [name |-> field.name, kinds |-> << field.kind >>])

\* the body of the loop of Index::add: push onto the first entry of that
\* name, or push a new entry
add_field(inner, field) ==
    LET found == IndexOfName(inner, field.name) IN
    IF found # {}
    THEN LET i == CHOOSE i \in found : \A j \in found : i <= j
         IN  [inner EXCEPT ![i].kinds = Append(@, field.kind)]
    ELSE Append(inner, [name |-> field.name, kinds |-> << field.kind >>])

\* Index::add
RECURSIVE add(_, _)
add(inner, fields) ==
    IF fields = << >> THEN inner
    ELSE add(add_field(inner, Head(fields)), Tail(fields))

\* ---------------------------------------------------------- to_struct_defs

IsEmpty(k) == k.tag = "Empty"
IsFactor(k) == k.tag = "Factor"
IsInteger(k) == k.tag = "Integer"

\* filter_map(|k| match k { Empty => None, _ => Some(k) })
present(kinds) == SelectSeq(kinds, LAMBDA k : ~IsEmpty(k))

\* all() where the code has any()
test_empty_all(kinds) == \A i \in 1..Len(kinds) : IsEmpty(kinds[i])

test_empty(kinds) == \E i \in 1..Len(kinds) : IsEmpty(kinds[i])

\* only the first present value is looked at
test_factor_first(kinds) ==
    LET p == present(kinds) IN p # << >> /\ IsFactor(p[1])

test_factor(kinds) ==
    LET p == present(kinds) IN \E i \in 1..Len(p) : IsFactor(p[i])

\* the Empty entries not filtered out
test_real_unfiltered(kinds) == \E i \in 1..Len(kinds) : ~IsInteger(kinds[i])

\* all() where the code has any()
test_real_all(kinds) ==
    LET p == present(kinds) IN \A i \in 1..Len(p) : ~IsInteger(p[i])

test_real(kinds) ==
    LET p == present(kinds) IN \E i \in 1..Len(p) : ~IsInteger(p[i])

\* every present value contributes a level
levels_all_present(kinds) ==
    LET p == present(kinds)
    IN  [i \in 1..Len(p) |->
            IF IsFactor(p[i]) THEN to_pascal_case(p[i].s)
            ELSE IF IsInteger(p[i]) THEN << "I", "n", "t" >>
            ELSE << "R", "e", "a", "l" >>]

\* filter_map(Factor(s) => Some(s)) and level.to_pascal_case(), in order
levels(kinds) ==
    LET fs == SelectSeq(kinds, IsFactor)
    IN  [i \in 1..Len(fs) |-> to_pascal_case(fs[i].s)]

I32Name == << "i", "3", "2" >>
F32Name == << "f", "3", "2" >>
OptionOpen == << "O", "p", "t", "i", "o", "n", "<" >>
OptionClose == << ">" >>

\* the type name before the Option wrapper
base_type_name(name, kinds) ==
    IF test_factor(kinds) THEN to_pascal_case(name)
    ELSE IF test_real(kinds) THEN F32Name
    ELSE I32Name

\* format!("Option<{}>", type_name) when test_empty
type_name(name, kinds) ==
    IF test_empty(kinds)
    THEN OptionOpen \o base_type_name(name, kinds) \o OptionClose
    ELSE base_type_name(name, kinds)

\* what to_struct_defs prints: the fields of Record in index order, then the
\* enum definitions in the order their columns were met
to_struct_defs(inner) ==
    LET fcols == SelectSeq(inner, LAMBDA e : test_factor(e.kinds))
    IN  [ fields |->
            [i \in 1..Len(inner) |->
                [name |-> inner[i].name,
                 type_name |-> type_name(inner[i].name, inner[i].kinds)]],
          factor_defs |->
            [i \in 1..Len(fcols) |->
                [type_name |-> to_pascal_case(fcols[i].name),
                 levels |-> levels(fcols[i].kinds)]] ]

\* ------------------------------------------------------------------ inputs

NameA == << "a" >>
NameB == << "b" >>

\* header rows the reader may give, one of them with a repeated name
HeaderChoices ==
    { << NameA >>, << NameA, NameB >>, << NameB, NameA >>, << NameA, NameA >> }

\* cell texts of the scanned rows: empty, integer, real, two factors
CellTexts ==
    { << >>, << "7" >>, << "7", ".", "0" >>, << "x" >>, << "y" >> }

Alphabet == {"-", "+", "0", "7", ".", "e", "x", " "}

ExtraTexts ==
    { << "2", "1", "4", "7", "4", "8", "3", "6", "4", "7" >>,
      << "2", "1", "4", "7", "4", "8", "3", "6", "4", "8" >>,
      << "-", "2", "1", "4", "7", "4", "8", "3", "6", "4", "8" >>,
      << "-", "2", "1", "4", "7", "4", "8", "3", "6", "4", "9" >>,
      << "i", "n", "f" >>, << "-", "i", "n", "f" >>, << "N", "a", "N" >>,
      << "i", "n", "f", "i", "n", "i", "t", "y" >>,
      << "7", "E", "7" >>, << "r", "e", "d" >>, << "5", "r", "e", "d" >>,
      << "3", ".", "1", "4" >> }

SeqsUpTo(S, n) == UNION { [1..k -> S] : k \in 0..n }

Texts == SeqsUpTo(Alphabet, MaxLen) \cup ExtraTexts

\* ------------------------------------------------------------------- state

VARIABLES
    headers,    \* main: the header row
    rows,       \* the records the reader has yielded so far, as cell rows
    index,      \* main: index.inner
    pc,         \* "scan", "done" (Ok(())), "error" (Err returned by `?`)
    out,        \* << >> until to_struct_defs has printed, then << its output >>
    raw,        \* the argument of a single FieldKind::parse call
    kind        \* its result, << >> before the call

vars == << headers, rows, index, pc, out, raw, kind >>

\* ---------------------------------------------------------------- the scan

Init ==
    /\ headers \in HeaderChoices
    /\ rows = << >>
    /\ index = << >>
    /\ pc = "scan"
    /\ out = << >>
    /\ raw = << >>
    /\ kind = << >>

\* the HashMap<String, String> deserialized from a row: a repeated header
\* keeps the cell inserted last
record_of(row) ==
    [h \in Range(headers) |->
        row[CHOOSE i \in 1..Len(headers) :
                /\ headers[i] = h
                /\ \A j \in 1..Len(headers) : headers[j] = h => j <= i]]

\* the fields built from one record, one per header
fields_of(row) ==
    [i \in 1..Len(headers) |->
        Field(headers[i], parse(record_of(row)[headers[i]]))]

\* one iteration of the loop of main: the reader yields Ok(record)
ReadRecord ==
    /\ pc = "scan"
    /\ Len(rows) < MaxRows
    /\ \E row \in [1..Len(headers) -> CellTexts] :
          /\ rows' = Append(rows, row)
          /\ index' = add(index, fields_of(row))
    /\ UNCHANGED << headers, pc, out, raw, kind >>

\* the error branch that also prints what was accumulated
ReadErrorPrinting ==
    /\ pc = "scan"
    /\ pc' = "error"
    /\ out' = << to_struct_defs(index) >>
    /\ UNCHANGED << headers, rows, index, raw, kind >>

\* the reader yields Err for the next row: `result?` returns it from main
ReadError ==
    /\ pc = "scan"
    /\ pc' = "error"
    /\ UNCHANGED << headers, rows, index, out, raw, kind >>

\* the reader is exhausted: index.to_struct_defs(); Ok(())
EndOfInput ==
    /\ pc = "scan"
    /\ pc' = "done"
    /\ out' = << to_struct_defs(index) >>
    /\ UNCHANGED << headers, rows, index, raw, kind >>

Next == ReadRecord \/ ReadError \/ EndOfInput

Spec == Init /\ [][Next]_vars

\* ----------------------------------------------------- a single parse call

InitParse ==
    /\ headers = << >>
    /\ rows = << >>
    /\ index = << >>
    /\ pc = "parse"
    /\ out = << >>
    /\ raw \in Texts
    /\ kind = << >>

ParseCell ==
    /\ pc = "parse"
    /\ pc' = "parsed"
    /\ kind' = << parse(raw) >>
    /\ UNCHANGED << headers, rows, index, out, raw >>

NextParse == ParseCell

SpecParse == InitParse /\ [][NextParse]_vars

\* ------------------------------------------------- reading the printed text

HeadersUnique ==
    \A i, j \in 1..Len(headers) : headers[i] = headers[j] => i = j

StartsWith(t, p) == Len(t) >= Len(p) /\ SubSeq(t, 1, Len(p)) = p

\* the printed type is Option<...>
IsOptionType(t) == StartsWith(t, OptionOpen) /\ t[Len(t)] = ">"

InnerType(t) ==
    IF IsOptionType(t) THEN SubSeq(t, Len(OptionOpen) + 1, Len(t) - 1) ELSE t

Primitive(t) ==
    IF InnerType(t) = I32Name THEN "Integer"
    ELSE IF InnerType(t) = F32Name THEN "Real"
    ELSE "Categorical"

Printed == out[1]

FieldOut(i) == Printed.fields[i]

\* the enum printed for field i: enums are printed in field order
EnumOf(i) ==
    Printed.factor_defs[
        Cardinality({ j \in 1..i :
            Primitive(Printed.fields[j].type_name) = "Categorical" })]

HasKind(kinds, tag) == \E j \in 1..Len(kinds) : kinds[j].tag = tag

Columns == 1..Len(index)

\* the texts of the Factor entries of a column, in row order
RECURSIVE FactorTexts(_)
FactorTexts(kinds) ==
    IF kinds = << >> THEN << >>
    ELSE IF Head(kinds).tag = "Factor"
         THEN << Head(kinds).s >> \o FactorTexts(Tail(kinds))
         ELSE FactorTexts(Tail(kinds))

\* a sequence without its repeated elements, first occurrences kept
RECURSIVE FirstOccurrences(_)
FirstOccurrences(s) ==
    IF s = << >> THEN << >>
    ELSE LET front == FirstOccurrences(SubSeq(s, 1, Len(s) - 1))
             last == s[Len(s)]
         IN  IF last \in Range(front) THEN front ELSE Append(front, last)

\* ------------------------------------------------------------------ claims

\* C1: a column with at least one Factor observation resolves to Categorical
\* (an enum named after the column, with its definition printed), whatever
\* Integer or Real observations it also holds and wherever they stand.
C1_FactorWins ==
    pc = "done" =>
        \A i \in Columns :
            HasKind(index[i].kinds, "Factor") =>
                /\ Primitive(FieldOut(i).type_name) = "Categorical"
                /\ InnerType(FieldOut(i).type_name) = to_pascal_case(index[i].name)
                /\ EnumOf(i).type_name = to_pascal_case(index[i].name)

C1_Witness ==
    /\ pc = "done"
    /\ \E i \in Columns :
          /\ Len(index[i].kinds) = 2
          /\ index[i].kinds[1].tag \in {"Integer", "Real"}
          /\ index[i].kinds[2].tag = "Factor"
          /\ Primitive(FieldOut(i).type_name) = "Categorical"

\* C2: a column is printed as Option<...> exactly when it holds an Empty
\* observation, whatever it resolves to, and the wrapped type is the type
\* the column resolves to with its Empty observations removed.
C2_OptionalIffMissing ==
    pc = "done" =>
        \A i \in Columns :
            /\ IsOptionType(FieldOut(i).type_name)
                   <=> HasKind(index[i].kinds, "Empty")
            /\ InnerType(FieldOut(i).type_name)
                   = type_name(index[i].name, present(index[i].kinds))

C2_Witness ==
    /\ pc = "done"
    /\ \E i \in Columns :
          /\ HasKind(index[i].kinds, "Empty")
          /\ HasKind(index[i].kinds, "Real")
          /\ IsOptionType(FieldOut(i).type_name)
          /\ Primitive(FieldOut(i).type_name) = "Real"
    /\ \E i \in Columns :
          /\ ~HasKind(index[i].kinds, "Empty")
          /\ ~IsOptionType(FieldOut(i).type_name)

\* C3: the levels printed for a Categorical column are the distinct texts of
\* its Factor observations, each once, in first-occurrence order.
C3_LevelsDistinctInOrder ==
    pc = "done" =>
        \A i \in Columns :
            HasKind(index[i].kinds, "Factor") =>
                LET want == FirstOccurrences(FactorTexts(index[i].kinds))
                IN  EnumOf(i).levels
                        = [l \in 1..Len(want) |-> to_pascal_case(want[l])]

\* C4 (as claimed): a column whose every observation is Empty resolves to
\* Categorical with no levels, and is optional.
C4_AllMissingCategorical ==
    pc = "done" =>
        \A i \in Columns :
            (\A j \in 1..Len(index[i].kinds) : IsEmpty(index[i].kinds[j])) =>
                /\ Primitive(FieldOut(i).type_name) = "Categorical"
                /\ IsOptionType(FieldOut(i).type_name)

\* C4 (amended): a column whose every observation is Empty resolves to
\* Integer, printed Option<i32>, and no enum is printed for it.
C4_AllMissingOptionalInteger ==
    pc = "done" =>
        \A i \in Columns :
            (\A j \in 1..Len(index[i].kinds) : IsEmpty(index[i].kinds[j])) =>
                /\ FieldOut(i).type_name = OptionOpen \o I32Name \o OptionClose
                /\ Len(Printed.factor_defs)
                       = Cardinality({ c \in Columns :
                             HasKind(index[c].kinds, "Factor") })

C4_Witness ==
    /\ pc = "done"
    /\ \E i \in Columns :
          /\ index[i].kinds = << Empty, Empty >>
          /\ Primitive(FieldOut(i).type_name) = "Integer"
          /\ IsOptionType(FieldOut(i).type_name)

\* C5: a column with a present value and no Factor resolves to Integer
\* exactly when every present value is Integer, and to Real otherwise: one
\* Real anywhere forces Real.
C5_IntegerIffAllInteger ==
    pc = "done" =>
        \A i \in Columns :
            LET p == present(index[i].kinds) IN
            (p # << >> /\ ~HasKind(p, "Factor")) =>
                /\ Primitive(FieldOut(i).type_name) = "Integer"
                       <=> \A j \in 1..Len(p) : p[j].tag = "Integer"
                /\ HasKind(p, "Real")
                       => Primitive(FieldOut(i).type_name) = "Real"
                /\ Primitive(FieldOut(i).type_name) \in {"Integer", "Real"}

C5_Witness ==
    /\ pc = "done"
    /\ \E i \in Columns :
          /\ index[i].kinds = << Integer, Real >>
          /\ Primitive(FieldOut(i).type_name) = "Real"
    /\ \E i \in Columns :
          /\ index[i].kinds = << Integer, Integer >>
          /\ Primitive(FieldOut(i).type_name) = "Integer"

\* C6: the printed record has exactly one field per header, in header
\* order, for every input, one with no data rows included.
C6_OneFieldPerHeader ==
    (pc = "done" /\ HeadersUnique) =>
        /\ Len(Printed.fields) = Len(headers)
        /\ \A i \in 1..Len(headers) : FieldOut(i).name = headers[i]

\* C7: FieldKind::parse gives exactly one kind for every text, by priority:
\* Empty for the empty text and for no other, else Integer when the integer
\* parser accepts it, else Real when the float parser accepts it, else
\* Factor carrying the text unchanged.
C7_ParsePriority ==
    pc = "parsed" =>
        LET k == kind[1] IN
        /\ Len(kind) = 1
        /\ k.tag \in {"Empty", "Integer", "Real", "Factor"}
        /\ k.tag = "Empty" <=> raw = << >>
        /\ k.tag = "Integer" <=> (raw # << >> /\ parse_i32(raw))
        /\ k.tag = "Real" <=> (raw # << >> /\ ~parse_i32(raw) /\ parse_f32(raw))
        /\ k.tag = "Factor" => k.s = raw
        /\ k.tag # "Factor" => DOMAIN k = {"tag"}

C7_Witness ==
    /\ pc = "parsed"
    /\ parse_i32(raw)
    /\ parse_f32(raw)
    /\ kind = << Integer >>

\* C8: in a Categorical column the levels come from the Factor observations
\* only: there are as many levels as Factor observations, so no Integer,
\* Real or Empty observation adds one, and every Factor observation's text
\* is among them.
C8_LevelsFromFactorsOnly ==
    pc = "done" =>
        \A i \in Columns :
            HasKind(index[i].kinds, "Factor") =>
                LET ks == index[i].kinds
                    lv == EnumOf(i).levels
                IN  /\ Len(lv) = Cardinality({ j \in 1..Len(ks) : IsFactor(ks[j]) })
                    /\ \A j \in 1..Len(ks) :
                          IsFactor(ks[j]) =>
                              \E l \in 1..Len(lv) : lv[l] = to_pascal_case(ks[j].s)

C8_Witness ==
    /\ pc = "done"
    /\ \E i \in Columns :
          /\ HasKind(index[i].kinds, "Factor")
          /\ HasKind(index[i].kinds, "Integer")
          /\ Len(EnumOf(i).levels) = 1
    /\ \E i \in Columns :
          /\ HasKind(index[i].kinds, "Factor")
          /\ HasKind(index[i].kinds, "Empty")
          /\ Len(EnumOf(i).levels) = 1

C9_State ==
    HeadersUnique =>
        /\ Len(index) = IF rows = << >> THEN 0 ELSE Len(headers)
        /\ \A c \in Columns :
              /\ index[c].name = headers[c]
              /\ Len(index[c].kinds) = Len(rows)
              /\ \A r \in 1..Len(rows) : index[c].kinds[r] = parse(rows[r][c])

C9_Step ==
    HeadersUnique =>
        /\ Len(index') >= Len(index)
        /\ \A c \in Columns :
              /\ index'[c].name = index[c].name
              /\ Len(index'[c].kinds) \in
                     { Len(index[c].kinds), Len(index[c].kinds) + 1 }
              /\ SubSeq(index'[c].kinds, 1, Len(index[c].kinds)) = index[c].kinds

\* C9: under unique headers, after k rows every column holds k kinds, the
\* i-th the classification of row i's cell, columns in header order; a step
\* only appends: no entry or column already present changes or moves.
C9_AppendOnly == []C9_State /\ [][C9_Step]_vars

C9_Witness ==
    /\ pc = "scan"
    /\ HeadersUnique
    /\ Len(headers) = 2
    /\ Len(rows) = 2
    /\ index[1].kinds[1] # index[1].kinds[2]
    /\ index[1].kinds # index[2].kinds

\* C10: when the reader reports an error the row is not added, the scan
\* stops there (no step leaves the error state), and nothing is printed.
C10_ErrorStopsWithoutOutput ==
    /\ [](pc = "error" => out = << >>)
    /\ [][ /\ pc # "error"
           /\ pc' = "error" => (index' = index /\ rows' = rows /\ out' = out)
         ]_vars

C10_Witness ==
    /\ pc = "error"
    /\ Len(rows) = 2
    /\ index # << >>
    /\ out = << >>

====
